---- MODULE Spec2Model ----
(***************************************************************************)
(* Model of voice-app/lib/sip-handler.js: handleInvite (device resolution, *)
(* media negotiation, the dialog 'destroy' handler) and conversationLoop   *)
(* (greeting, audio fork, the turn loop, the error path and the cleanup    *)
(* block) for one inbound call.                                            *)
(*                                                                         *)
(* pc names the asynchronous operation the call is suspended on.  One      *)
(* action models the settling of that operation together with the          *)
(* synchronous code that runs up to the next await.                        *)
(*                                                                         *)
(* Strings the code inspects are sequences of one-character strings.       *)
(* stripVideoFromSdp runs inside handleInvite; isGoodbye and               *)
(* extractVoiceLine are also explored on their own (SpecGoodbye,           *)
(* SpecVoiceLine), the latter on responses given as words and line breaks. *)
(***************************************************************************)
EXTENDS Integers, Sequences, FiniteSets, TLC

(***************************************************************************)
(* Bounds of the model.                                                    *)
(***************************************************************************)
MaxUserLen == 2    \* longest user part of a To header that is enumerated
MaxDevices == 2    \* most devices in an enumerated registry
MaxSdpLines == 4   \* most lines of an enumerated session description
MaxHeardWords == 3 \* most words of a transcript handed to isGoodbye on its own
LimitSlack == 1    \* how far around a word limit the enumerated line lengths go
CountCap == 2      \* the call counters saturate here (the code reaches 1)

(***************************************************************************)
(* Program constants.                                                      *)
(***************************************************************************)
MAX_TURNS == 20

Null == <<"NULL">>      \* JavaScript null / undefined

(***************************************************************************)
(* String helpers (String.prototype methods used by the code).             *)
(***************************************************************************)
Digits == {"0", "1", "2", "3", "4", "5", "6", "7", "8", "9"}

UpperChars == <<"A","B","C","D","E","F","G","H","I","J","K","L","M",
                "N","O","P","Q","R","S","T","U","V","W","X","Y","Z">>
LowerChars == <<"a","b","c","d","e","f","g","h","i","j","k","l","m",
                "n","o","p","q","r","s","t","u","v","w","x","y","z">>

LowerChar(c) ==
  IF \E i \in 1..26 : UpperChars[i] = c
    THEN LowerChars[CHOOSE i \in 1..26 : UpperChars[i] = c]
    ELSE c

toLowerCase(s) == [i \in 1..Len(s) |-> LowerChar(s[i])]

IsWhitespace(c) == c \in {" ", "\t", "\n", "\r"}

trim(s) ==
  IF \A i \in 1..Len(s) : IsWhitespace(s[i])
    THEN <<>>
    ELSE LET first == CHOOSE i \in 1..Len(s) :
                        /\ ~IsWhitespace(s[i])
                        /\ \A j \in 1..(i - 1) : IsWhitespace(s[j])
             last  == CHOOSE i \in 1..Len(s) :
                        /\ ~IsWhitespace(s[i])
                        /\ \A j \in (i + 1)..Len(s) : IsWhitespace(s[j])
         IN  SubSeq(s, first, last)

startsWith(s, p) == Len(p) <= Len(s) /\ SubSeq(s, 1, Len(p)) = p

endsWith(s, p) == Len(p) <= Len(s) /\ SubSeq(s, Len(s) - Len(p) + 1, Len(s)) = p

includes(s, p) ==
  \E i \in 1..(Len(s) - Len(p) + 1) : SubSeq(s, i, i + Len(p) - 1) = p

goodbyePhrases ==
  << <<"g","o","o","d","b","y","e">>,
     <<"g","o","o","d"," ","b","y","e">>,
     <<"b","y","e">>,
     <<"h","a","n","g"," ","u","p">>,
     <<"e","n","d"," ","c","a","l","l">>,
     <<"t","h","a","t","'","s"," ","a","l","l">>,
     <<"t","h","a","t","s"," ","a","l","l">> >>

isGoodbye(transcript) ==
  LET lower == trim(toLowerCase(transcript))
  IN  \E k \in 1..Len(goodbyePhrases) :
        LET phrase == goodbyePhrases[k]
        IN  \/ lower = phrase
            \/ includes(lower, <<" ">> \o phrase)
            \/ startsWith(lower, phrase \o <<" ">>)
            \/ endsWith(lower, <<" ">> \o phrase)

\* line 217: !transcript || transcript.trim().length < 2
IsUnclearTranscript(transcript) ==
  \/ transcript = Null
  \/ transcript = <<>>
  \/ Len(trim(transcript)) < 2

(***************************************************************************)
(* extractDialedExtension: the first match of /sip:(\d+)@/ in the To       *)
(* header, or null.                                                        *)
(***************************************************************************)
SipPrefix == <<"s", "i", "p", ":">>

\* the position of the "@" that ends a match starting at i, or 0
DialedMatchEnd(to, i) ==
  IF /\ i + 3 <= Len(to)
     /\ SubSeq(to, i, i + 3) = SipPrefix
     /\ \E j \in (i + 5)..Len(to) :
          /\ to[j] = "@"
          /\ \A k \in (i + 4)..(j - 1) : to[k] \in Digits
    THEN CHOOSE j \in (i + 5)..Len(to) :
           /\ to[j] = "@"
           /\ \A k \in (i + 4)..(j - 1) : to[k] \in Digits
    ELSE 0

extractDialedExtension(to) ==
  IF \E i \in 1..Len(to) : DialedMatchEnd(to, i) # 0
    THEN LET i == CHOOSE i \in 1..Len(to) :
                    /\ DialedMatchEnd(to, i) # 0
                    /\ \A h \in 1..(i - 1) : DialedMatchEnd(to, h) = 0
         IN  SubSeq(to, i + 4, DialedMatchEnd(to, i) - 1)
    ELSE Null

(***************************************************************************)
(* The device registry (device-registry.js is a collaborator: a table of   *)
(* profiles keyed by extension, in configuration order, and a default).    *)
(***************************************************************************)
Profile(ext) == <<"profile", ext>>

DEFAULT == Profile(<<"DEFAULT">>)

\* deviceRegistry.getDefault()
getDefault == DEFAULT

\* deviceRegistry.get(identifier): the profile keyed by it, or null
get(devices, identifier) ==
  IF \E n \in 1..Len(devices) : devices[n] = identifier
    THEN Profile(identifier)
    ELSE Null

\* deviceRegistry.getAllDevices(): an object keyed by extension, its
\* properties created in configuration order
getAllDevices(devices) == devices

RECURSIVE NumericValue(_)
NumericValue(s) ==
  IF s = <<>> THEN 0
  ELSE LET d == CHOOSE n \in 0..9 : ToString(n) = s[Len(s)]
       IN  10 * NumericValue(SubSeq(s, 1, Len(s) - 1)) + d

\* a property key that is a canonical array index ("0", "7", "9000")
IsIntegerKey(key) ==
  /\ key # <<>>
  /\ \A i \in 1..Len(key) : key[i] \in Digits
  /\ (Len(key) = 1 \/ key[1] # "0")

\* Object.keys(obj): integer keys in ascending numeric order, then the
\* other keys in creation order
ObjectKeys(obj) ==
  LET ints == {n \in 1..Len(obj) : IsIntegerKey(obj[n])}
      strs == SelectSeq(obj, LAMBDA key : ~IsIntegerKey(key))
      sortedInts ==
        CHOOSE s \in [1..Cardinality(ints) -> ints] :
          /\ \A a, b \in 1..Cardinality(ints) : a # b => s[a] # s[b]
          /\ \A a, b \in 1..Cardinality(ints) :
               a < b => NumericValue(obj[s[a]]) < NumericValue(obj[s[b]])
  IN  [n \in 1..Cardinality(ints) |-> obj[sortedInts[n]]] \o strs

\* ResolveDevice without the getDefault() of line 381: an unknown extension
\* falls through to the first-device branch
ResolveDevice_NoDefault(reg, ext) ==
  LET byExt == IF reg.present /\ ext # Null THEN get(reg.devices, ext) ELSE Null
  IN  IF byExt = Null /\ reg.present
        THEN LET keys == ObjectKeys(getAllDevices(reg.devices))
             IN  IF keys # <<>> THEN Profile(keys[1]) ELSE getDefault
        ELSE byExt

\* handleInvite, lines 373-396: the profile handed to the engine
ResolveDevice(reg, ext) ==
  LET byExt ==
        IF reg.present /\ ext # Null
          THEN IF get(reg.devices, ext) # Null
                 THEN get(reg.devices, ext)
                 ELSE getDefault
          ELSE Null
  IN  IF byExt = Null /\ reg.present
        THEN LET allDevices == getAllDevices(reg.devices)
                 keys == ObjectKeys(allDevices)
             IN  IF keys # <<>> THEN Profile(keys[1]) ELSE getDefault
        ELSE byExt

(***************************************************************************)
(* stripVideoFromSdp, lines 334-362.                                       *)
(***************************************************************************)
CRLF == <<"\r", "\n">>
MVideo == <<"m", "=", "v", "i", "d", "e", "o">>
MPrefix == <<"m", "=">>

\* String.prototype.indexOf: the first position of sep in s, or 0
indexOf(s, sep) ==
  IF includes(s, sep)
    THEN CHOOSE i \in 1..(Len(s) - Len(sep) + 1) :
           /\ SubSeq(s, i, i + Len(sep) - 1) = sep
           /\ \A j \in 1..(i - 1) : SubSeq(s, j, j + Len(sep) - 1) # sep
    ELSE 0

\* String.prototype.split with a non-empty string separator
RECURSIVE split(_, _)
split(s, sep) ==
  LET i == indexOf(s, sep)
  IN  IF i = 0
        THEN <<s>>
        ELSE <<SubSeq(s, 1, i - 1)>> \o split(SubSeq(s, i + Len(sep), Len(s)), sep)

\* Array.prototype.join
RECURSIVE join(_, _)
join(lines, sep) ==
  IF lines = <<>> THEN <<>>
  ELSE IF Len(lines) = 1 THEN lines[1]
  ELSE lines[1] \o sep \o join(Tail(lines), sep)

\* SdpJoin with a bare line feed as the separator
SdpJoin_LF(lines) == join(lines, <<"\n">>)

\* line 361: result.join('\r\n')
SdpJoin(lines) == join(lines, CRLF)

\* lines 342-359: the for loop over the lines, from line i on
RECURSIVE StripLoop(_, _, _, _)
StripLoop(lines, i, inVideoSection, result) ==
  IF i > Len(lines) THEN result
  ELSE LET line == lines[i]
       IN  IF startsWith(line, MVideo)
             THEN StripLoop(lines, i + 1, TRUE, result)
             ELSE LET inVideo == IF startsWith(line, MPrefix) /\ ~startsWith(line, MVideo)
                                   THEN FALSE
                                   ELSE inVideoSection
                  IN  IF inVideo
                        THEN StripLoop(lines, i + 1, inVideo, result)
                        ELSE StripLoop(lines, i + 1, inVideo, Append(result, line))

stripVideoFromSdp(sdp) ==
  IF sdp = Null \/ sdp = <<>>
    THEN sdp
    ELSE SdpJoin(StripLoop(split(sdp, CRLF), 1, FALSE, <<>>))

(***************************************************************************)
(* extractVoiceLine, lines 73-105.  A response is the sequence of its      *)
(* whitespace-delimited words, with NL for every line break.               *)
(***************************************************************************)
NL == "\n"
SpeakMark == "(speaking-head)"   \* the emoji of VOICE_RESPONSE and CUSTOM COMPLETED
TargetMark == "(direct-hit)"     \* the emoji of COMPLETED

VOICE_WORD_LIMIT == 60
CUSTOM_WORD_LIMIT == 50
FALLBACK_WORDS == 120
FALLBACK_CHARS == 500

VoiceMarker == <<SpeakMark, "VOICE_RESPONSE:">>
CustomMarker == <<SpeakMark, "CUSTOM", "COMPLETED:">>
CompletedMarker == <<TargetMark, "COMPLETED:">>

\* \s*: the first position from i on that holds no line break
RECURSIVE SkipBreaks(_, _)
SkipBreaks(r, i) ==
  IF i <= Len(r) /\ r[i] = NL THEN SkipBreaks(r, i + 1) ELSE i

\* the position after the words of marker, matched from word k of it at i
\* (the \s* and \s+ between two words of a marker also match line breaks);
\* 0 without a match
RECURSIVE MarkerEnd(_, _, _, _)
MarkerEnd(r, i, marker, k) ==
  IF k > Len(marker) THEN i
  ELSE LET j == IF k = 1 THEN i ELSE SkipBreaks(r, i)
       IN  IF j <= Len(r) /\ r[j] = marker[k]
             THEN MarkerEnd(r, j + 1, marker, k + 1)
             ELSE 0

\* the last position of the line that position q is on
RECURSIVE LineEnd(_, _)
LineEnd(r, q) ==
  IF q < Len(r) /\ r[q + 1] # NL THEN LineEnd(r, q + 1) ELSE q

\* response.match(/<marker>\s*([^\n]+)/) and /<marker>\s*(.+?)(?:\n|$)/m:
\* group 1 of the leftmost match, or Null
MatchAfter(r, marker) ==
  LET hits == {i \in 1..Len(r) :
                 /\ MarkerEnd(r, i, marker, 1) # 0
                 /\ SkipBreaks(r, MarkerEnd(r, i, marker, 1)) <= Len(r)}
  IN  IF hits = {} THEN Null
      ELSE LET i == CHOOSE h \in hits : \A g \in hits : h <= g
               q == SkipBreaks(r, MarkerEnd(r, i, marker, 1))
           IN  SubSeq(r, q, LineEnd(r, q))

\* .replace(/\*+/g, '') within one word
RemoveStars(w) == IF w = "*w*" THEN "w" ELSE IF w = "**" THEN "" ELSE w

\* .replace(/\[.*?\]/g, '') within one word
RemoveAsides(w) == IF w = "[a]" THEN "" ELSE w

\* .replace(/[*#`]/g, "") within one word
RemoveMarkup(w) ==
  IF w = "*w*" THEN "w" ELSE IF w = "**" THEN "" ELSE IF w = "#h" THEN "h" ELSE w

NonEmptyWords(ws) == SelectSeq(ws, LAMBDA w : w # "")

\* .trim().replace(/\*+/g, '').replace(/\[.*?\]/g, '').trim(): the words left
CleanLine(text) ==
  NonEmptyWords([i \in 1..Len(text) |-> RemoveAsides(RemoveStars(text[i]))])

\* .trim().split(/\s+/): the words; one empty word for the empty text
splitWords(ws) == IF ws = <<>> THEN <<"">> ELSE ws

\* Array.prototype.slice(0, n)
slice(ws, n) == SubSeq(ws, 1, IF Len(ws) < n THEN Len(ws) ELSE n)

\* line 99: response.replace(/[*#`]/g, "").trim().split(/\s+/).slice(0, 120)
FallbackWords(r) ==
  LET raw == SelectSeq(r, LAMBDA w : w # NL)
  IN  slice(splitWords(NonEmptyWords([i \in 1..Len(raw) |-> RemoveMarkup(raw[i])])),
            FALLBACK_WORDS)

\* the number of characters of a word
WordChars(w) ==
  IF w = SpeakMark THEN 3
  ELSE IF w = TargetMark THEN 2
  ELSE IF w = "VOICE_RESPONSE:" THEN 15
  ELSE IF w = "COMPLETED:" THEN 10
  ELSE IF w = "CUSTOM" THEN 6
  ELSE IF w \in {"*w*", "[a]"} THEN 3
  ELSE IF w \in {"**", "#h"} THEN 2
  ELSE 1

\* line 104: response.substring(0, 500).trim(): the leading words that fit
\* into budget characters, one character between two words
RECURSIVE FirstChars(_, _, _)
FirstChars(r, i, budget) ==
  IF i > Len(r) \/ WordChars(r[i]) > budget THEN <<>>
  ELSE (IF r[i] = NL THEN <<>> ELSE <<r[i]>>)
       \o FirstChars(r, i + 1, budget - WordChars(r[i]) - (IF r[i] = NL THEN 0 ELSE 1))

extractVoiceLine(response) ==
  LET voiceMatch == MatchAfter(response, VoiceMarker)
      customMatch == MatchAfter(response, CustomMarker)
      completedMatch == MatchAfter(response, CompletedMarker)
      words == FallbackWords(response)
  IN  IF /\ voiceMatch # Null
         /\ CleanLine(voiceMatch) # <<>>
         /\ Len(CleanLine(voiceMatch)) <= VOICE_WORD_LIMIT
        THEN CleanLine(voiceMatch)
      ELSE IF /\ customMatch # Null
              /\ CleanLine(customMatch) # <<>>
              /\ Len(CleanLine(customMatch)) <= CUSTOM_WORD_LIMIT
        THEN CleanLine(customMatch)
      ELSE IF completedMatch # Null
        THEN CleanLine(completedMatch)
      ELSE IF Len(words) > 0
        THEN NonEmptyWords(words)
      ELSE FirstChars(response, 1, FALLBACK_CHARS)

(***************************************************************************)
(* Inputs of a call.                                                       *)
(***************************************************************************)
ToChars == {"1", "2", "a"}

RECURSIVE SeqsUpTo(_, _)
SeqsUpTo(S, n) ==
  IF n = 0 THEN {<<>>}
  ELSE LET shorter == SeqsUpTo(S, n - 1)
       IN  shorter \cup {Append(s, c) : s \in shorter, c \in S}

\* a To header with the given user part, with or without angle brackets
ToHeader(user, bracketed) ==
  IF bracketed
    THEN <<"<">> \o SipPrefix \o user \o <<"@", "h", ">">>
    ELSE SipPrefix \o user \o <<"@", "h">>

\* req.get("To") || "": no header at all reads as the empty string
ToHeaders ==
  {<<>>} \cup {ToHeader(u, b) : u \in SeqsUpTo(ToChars, MaxUserLen), b \in BOOLEAN}

ExtensionKeys == {<<"1">>, <<"2">>, <<"1", "2">>}

Registries ==
  {[present |-> FALSE, devices |-> <<>>]} \cup
  {[present |-> TRUE, devices |-> d] :
     d \in {s \in SeqsUpTo(ExtensionKeys, MaxDevices) :
              \A a, b \in 1..Len(s) : a # b => s[a] # s[b]}}

\* the lines session descriptions are built from
SdpLineTexts ==
  { <<"v", "=", "0">>, <<"m", "=", "a", "u", "d", "i", "o">>,
    <<"m", "=", "v", "i", "d", "e", "o">>, <<"a", "=", "x">> }

\* the lines, each followed by the terminator; the last one only if trailing
RenderSdp(lines, terminator, trailing) ==
  join(lines, terminator) \o (IF trailing THEN terminator ELSE <<>>)

\* req.body: absent, empty, or lines ended by CR LF or by a bare LF
SdpBodies ==
  {Null, <<>>} \cup
  {RenderSdp(lines, t, trailing) :
     lines \in SeqsUpTo(SdpLineTexts, MaxSdpLines) \ {<<>>},
     t \in {CRLF, <<"\n">>}, trailing \in BOOLEAN}

\* an offer with an audio and a video section
AudioVideoOffer ==
  RenderSdp(<< <<"v", "=", "0">>, <<"m", "=", "a", "u", "d", "i", "o">>,
               <<"m", "=", "v", "i", "d", "e", "o">>, <<"a", "=", "x">> >>,
            CRLF, TRUE)

AllInvites == ToHeaders \X Registries \X {AudioVideoOffer}

\* one To header and registry, every enumerated body
SdpInvites ==
  {ToHeader(<<"1">>, TRUE)} \X {[present |-> TRUE, devices |-> <<<<"1">>>>]}
    \X SdpBodies

\* the two invites the call engine is explored with
EngineInvites ==
  { <<ToHeader(<<"1">>, TRUE), [present |-> TRUE, devices |-> <<<<"1">>>>],
      AudioVideoOffer>>,
    <<<<>>, [present |-> TRUE, devices |-> <<>>], AudioVideoOffer>> }

\* what whisperClient.transcribe can resolve with
Transcripts ==
  { Null, <<" ">>, <<"o", "k", " ", "B", "y", "e">>, <<"h", "i">> }

\* the words the transcripts checked against isGoodbye are made of
HeardWords ==
  { <<"o", "k">>, <<"b", "y", "e">>, <<"B", "y", "e">>, <<"b", "y", "e", "s">>,
    <<"a", "b", "y", "e">>, <<"h", "a", "n", "g">>, <<"u", "p">> }

\* one to MaxHeardWords words separated by single spaces, as they are or
\* with a space before and after
HeardTranscripts ==
  {IF padded THEN <<" ">> \o join(ws, <<" ">>) \o <<" ">> ELSE join(ws, <<" ">>) :
     ws \in SeqsUpTo(HeardWords, MaxHeardWords) \ {<<>>}, padded \in BOOLEAN}

\* n plain words
Words(n) == [i \in 1..n |-> "w"]

\* the lengths of the enumerated texts: short ones and those around a limit
BodyLengths ==
  0..LimitSlack \cup
  UNION {(limit - LimitSlack + 1)..(limit + LimitSlack) :
           limit \in {VOICE_WORD_LIMIT, CUSTOM_WORD_LIMIT, FALLBACK_WORDS}}

\* plain text, a bracketed aside alone, and text with markup
Bodies ==
  {Words(n) : n \in BodyLengths} \cup {<<"[a]">>, <<"*w*", "[a]", "#h", "**">>}

\* one line of a response: text, or a marker with the text that follows it
ResponseLines ==
  {pre \o marker \o body :
     pre \in {<<>>, <<"w">>},
     marker \in {<<>>, VoiceMarker, CustomMarker, CompletedMarker},
     body \in Bodies}

\* what claudeBridge.query can resolve with: one line or two
Responses ==
  ResponseLines \cup {a \o <<NL>> \o b : a, b \in ResponseLines}

FAREWELL == <<"farewell">>
VOICE_LINE == <<"voiceLine">>

(***************************************************************************)
(* State.                                                                  *)
(***************************************************************************)
VARIABLES
  toHeader,             \* req.get("To") || ""
  registry,             \* options.deviceRegistry
  dialedExt,            \* handleInvite: dialedExt
  deviceConfig,         \* handleInvite: deviceConfig
  originalSdp,          \* handleInvite: originalSdp = req.body
  audioOnlySdp,         \* handleInvite: audioOnlySdp
  rejectionsSent,       \* calls of res.send(500)
  bridgeSessions,       \* the call ids the bridge holds a session for
  sessionsCreated,      \* bridge sessions started by this call's queries
  heard,                \* isGoodbye: transcript
  goodbye,              \* isGoodbye: the value returned
  claudeResponse,       \* extractVoiceLine: response
  voiceLine,            \* extractVoiceLine: the value returned
  pc,                   \* the await the call is suspended on
  turnCount,            \* conversationLoop: turnCount
  session,              \* conversationLoop: session is non-null
  forkRunning,          \* conversationLoop: forkRunning
  captureEnabled,       \* the session's capture flag
  musicPlaying,         \* conversationLoop: musicPlaying
  holdMusic,            \* the un-awaited hold-music playback is pending
  callTranscript,       \* conversationLoop: callTranscript, as the set of its entries
  handlerRegistered,    \* dialog.on('destroy', ...) has been called
  hungUp,               \* the dialog 'destroy' event has fired
  endpointDestroyCalls, \* calls of endpoint.destroy()
  cleanupEntered,       \* entries of the finally block
  endSessionCalls,      \* calls of claudeBridge.endSession
  forkStopCalls,        \* calls of endpoint.forkAudioStop
  flushCount,           \* transcript payloads handed to the webhook request
  dialogDestroyCalls,   \* calls of dialog.destroy()
  cleanupFailed,        \* the cleanup steps that rejected or threw
  cosmeticFailure,      \* the cue, music, interrupt or start notification
                        \* whose failure the last step swallowed, or "none"
  thrownAt,             \* the await whose rejection entered the catch block
  lineSynth,            \* lines handed to ttsService.generateSpeech
  linePlayed            \* lines whose audio was handed to endpoint.play

routeVars == <<toHeader, registry, dialedExt, deviceConfig, originalSdp, audioOnlySdp>>
bridgeVars == <<bridgeSessions, sessionsCreated>>
ctlVars == <<pc, turnCount, lineSynth, cleanupEntered, endSessionCalls, bridgeVars>>
engineVars == <<session, forkRunning, captureEnabled, musicPlaying, holdMusic,
                callTranscript, thrownAt, linePlayed>>
dialogVars == <<handlerRegistered, hungUp, endpointDestroyCalls, rejectionsSent>>
finalVars == <<forkStopCalls, flushCount, dialogDestroyCalls, cleanupFailed>>
pureVars == <<heard, goodbye, claudeResponse, voiceLine>>
cosmeticVars == <<cosmeticFailure>>

vars == <<toHeader, registry, dialedExt, deviceConfig, pc, turnCount, session,
          forkRunning, captureEnabled, musicPlaying, holdMusic, callTranscript,
          handlerRegistered, hungUp, endpointDestroyCalls, cleanupEntered,
          endSessionCalls, forkStopCalls, flushCount, dialogDestroyCalls,
          thrownAt, lineSynth, linePlayed, originalSdp, audioOnlySdp,
          rejectionsSent, bridgeSessions, sessionsCreated, heard, goodbye,
          claudeResponse, voiceLine, cleanupFailed, cosmeticFailure>>

Init ==
  /\ toHeader = <<>>
  /\ registry = [present |-> FALSE, devices |-> <<>>]
  /\ dialedExt = Null
  /\ deviceConfig = Null
  /\ pc = "invite"
  /\ turnCount = 0
  /\ session = FALSE
  /\ forkRunning = FALSE
  /\ captureEnabled = FALSE
  /\ musicPlaying = FALSE
  /\ holdMusic = FALSE
  /\ callTranscript = {}
  /\ handlerRegistered = FALSE
  /\ hungUp = FALSE
  /\ endpointDestroyCalls = 0
  /\ cleanupEntered = 0
  /\ endSessionCalls = 0
  /\ forkStopCalls = 0
  /\ flushCount = 0
  /\ dialogDestroyCalls = 0
  /\ cleanupFailed = {}
  /\ cosmeticFailure = "none"
  /\ thrownAt = "none"
  /\ lineSynth = {}
  /\ linePlayed = {}
  /\ originalSdp = Null
  /\ audioOnlySdp = Null
  /\ rejectionsSent = 0
  /\ bridgeSessions = {}
  /\ sessionsCreated = 0
  /\ heard = Null
  /\ goodbye = FALSE
  /\ claudeResponse = Null
  /\ voiceLine = Null

Inc(n) == IF n < CountCap THEN n + 1 ELSE n

\* a step that swallows no failure of a cue, the music, the interrupt or the
\* start notification
NothingSwallowed == cosmeticFailure' = "none"

\* a failure of op that is caught and logged: either outcome, same successor
Swallowed(op) ==
  \E failed \in BOOLEAN :
    cosmeticFailure' = IF failed THEN op ELSE "none"

\* handleInvite, line 410: callUuid = endpoint.uuid
callUuid == <<"uuid", 0>>

(***************************************************************************)
(* Control transfers inside conversationLoop.  Each one fixes ctlVars.     *)
(***************************************************************************)
\* the awaits of ttsService.generateSpeech and of endpoint.play, per line
TtsPc ==
  [greeting |-> "tts_greeting", nohear |-> "tts_nohear", clarify |-> "tts_clarify",
   bye |-> "tts_bye", thinking |-> "tts_thinking", voice |-> "tts_voice",
   max |-> "tts_max", err |-> "tts_err"]

PlayPc ==
  [greeting |-> "play_greeting", nohear |-> "play_nohear", clarify |-> "play_clarify",
   bye |-> "play_bye", thinking |-> "play_thinking", voice |-> "play_voice",
   max |-> "play_max", err |-> "play_err"]

Goto(p) ==
  /\ pc' = p
  /\ UNCHANGED <<turnCount, lineSynth, cleanupEntered, endSessionCalls, bridgeVars>>

\* await ttsService.generateSpeech(<line>, voiceId)
Say(line) ==
  /\ pc' = TtsPc[line]
  /\ lineSynth' = lineSynth \cup {line}
  /\ UNCHANGED <<turnCount, cleanupEntered, endSessionCalls, bridgeVars>>

\* the bridge's session map: a query under an id without a session starts
\* one, a query under a known id resumes it, endSession forgets the id
BridgeStartsSession(sessions, callId) == callId \notin sessions

BridgeAfterQuery(sessions, callId) == sessions \cup {callId}

BridgeAfterEndSession(sessions, callId) == sessions \ {callId}

\* QueryCallId with a fresh id for every turn
QueryCallId_PerTurn == <<"uuid", turnCount>>

\* line 247: callId: callUuid
QueryCallId == callUuid

\* lines 245-248: await claudeBridge.query(transcript, { callId, devicePrompt })
IssueQuery ==
  /\ pc' = "query"
  /\ bridgeSessions' = BridgeAfterQuery(bridgeSessions, QueryCallId)
  /\ sessionsCreated' = IF BridgeStartsSession(bridgeSessions, QueryCallId)
                          THEN Inc(sessionsCreated)
                          ELSE sessionsCreated
  /\ UNCHANGED <<turnCount, lineSynth, cleanupEntered, endSessionCalls>>

\* finally { ... await claudeBridge.endSession(callUuid)
EnterFinally ==
  /\ pc' = "endSession"
  /\ cleanupEntered' = Inc(cleanupEntered)
  /\ endSessionCalls' = Inc(endSessionCalls)
  /\ bridgeSessions' = BridgeAfterEndSession(bridgeSessions, callUuid)
  /\ UNCHANGED <<turnCount, lineSynth, sessionsCreated>>

\* AfterLoop with the test turnCount > MAX_TURNS
AfterLoop_Strict ==
  IF turnCount > MAX_TURNS THEN Say("max") ELSE EnterFinally

\* lines 270-273, reached when the while loop is left
AfterLoop ==
  IF turnCount >= MAX_TURNS THEN Say("max") ELSE EnterFinally

\* LoopCond with the test turnCount <= MAX_TURNS
LoopCond_Inclusive(tc) == tc <= MAX_TURNS

\* line 170: while (turnCount < MAX_TURNS)
LoopCond(tc) == tc < MAX_TURNS

\* LoopHead without turnCount++ (line 171): the turn is not counted
LoopHead_NoCount ==
  IF LoopCond(turnCount)
    THEN Goto("play_ready")
    ELSE AfterLoop

\* lines 170-176: the loop test, turnCount++ and the ready beep
LoopHead ==
  IF LoopCond(turnCount)
    THEN /\ pc' = "play_ready"
         /\ turnCount' = turnCount + 1
         /\ UNCHANGED <<lineSynth, cleanupEntered, endSessionCalls, bridgeVars>>
    ELSE AfterLoop

\* Catch without the apology: straight to the finally block
Catch_Silent ==
  /\ thrownAt' = pc
  /\ captureEnabled' = IF session THEN FALSE ELSE captureEnabled
  /\ EnterFinally

\* catch (error) { if (session) session.setCaptureEnabled(false); ...
Catch ==
  /\ thrownAt' = pc
  /\ captureEnabled' = IF session THEN FALSE ELSE captureEnabled
  /\ Say("err")

(***************************************************************************)
(* handleInvite.                                                           *)
(***************************************************************************)
\* lines 367-408: resolve the device, start mediaServer.connectCaller
HandleInvite(invites) ==
  /\ pc = "invite"
  /\ \E inv \in invites :
       /\ toHeader' = inv[1]
       /\ registry' = inv[2]
       /\ dialedExt' = extractDialedExtension(inv[1])
       /\ deviceConfig' = ResolveDevice(inv[2], extractDialedExtension(inv[1]))
       /\ originalSdp' = inv[3]
       /\ audioOnlySdp' = stripVideoFromSdp(inv[3])
  /\ Goto("connectCaller")
  /\ UNCHANGED <<engineVars, dialogVars, finalVars, pureVars, cosmeticVars>>

\* ConnectCallerRejects with the error swallowed: the engine is started
ConnectCallerRejects_Swallowed ==
  /\ pc = "connectCaller"
  /\ Say("greeting")
  /\ rejectionsSent' = Inc(rejectionsSent)
  /\ NothingSwallowed
  /\ UNCHANGED <<pureVars, routeVars, engineVars, handlerRegistered, hungUp,
                 endpointDestroyCalls, finalVars>>

\* lines 435-439: connectCaller rejects; res.send(500) and rethrow
ConnectCallerRejects ==
  /\ pc = "connectCaller"
  /\ Goto("rejected")
  /\ rejectionsSent' = Inc(rejectionsSent)
  /\ NothingSwallowed
  /\ UNCHANGED <<pureVars, routeVars, engineVars, handlerRegistered, hungUp,
                 endpointDestroyCalls, finalVars>>

\* lines 125-149: conversationLoop up to its first await; the call-start
\* notification is sent or throws (caught)
StartConversation ==
  /\ Swallowed("startWebhook")
  /\ Say("greeting")

\* lines 409-432: connected; register the 'destroy' handler; the caller
\* either is the one that gets the DTMF tone or goes straight to the engine
ConnectCallerResolves ==
  /\ pc = "connectCaller"
  /\ handlerRegistered' = TRUE
  /\ \E dtmfCaller \in BOOLEAN :
       IF dtmfCaller
         THEN Goto("dtmf_delay") /\ NothingSwallowed
         ELSE StartConversation
  /\ UNCHANGED <<pureVars, routeVars, engineVars, hungUp, endpointDestroyCalls,
                 rejectionsSent, finalVars>>

\* line 422: the 20 s timer fires; endpoint.api('uuid_send_dtmf', ...)
DtmfDelayElapses ==
  /\ pc = "dtmf_delay"
  /\ Goto("dtmf_api")
  /\ NothingSwallowed
  /\ UNCHANGED <<pureVars, routeVars, engineVars, dialogVars, finalVars>>

\* lines 423-429: the tone command resolves or rejects (caught); 6 s timer
DtmfApiSettles ==
  /\ pc = "dtmf_api"
  /\ Goto("dtmf_post_delay")
  /\ NothingSwallowed
  /\ UNCHANGED <<pureVars, routeVars, engineVars, dialogVars, finalVars>>

\* lines 429-432: the 6 s timer fires; the engine starts
DtmfPostDelayElapses ==
  /\ pc = "dtmf_post_delay"
  /\ StartConversation
  /\ UNCHANGED <<pureVars, routeVars, engineVars, dialogVars, finalVars>>

\* RemoteHangup with a handler that also releases the bridge session
RemoteHangup_AlsoEndsSession ==
  /\ handlerRegistered
  /\ ~hungUp
  /\ dialogDestroyCalls = 0
  /\ hungUp' = TRUE
  /\ endpointDestroyCalls' = Inc(endpointDestroyCalls)
  /\ endSessionCalls' = Inc(endSessionCalls)
  /\ bridgeSessions' = BridgeAfterEndSession(bridgeSessions, callUuid)
  /\ NothingSwallowed
  /\ UNCHANGED <<pureVars, routeVars, pc, turnCount, lineSynth, cleanupEntered,
                 sessionsCreated, engineVars, handlerRegistered, rejectionsSent,
                 finalVars>>

\* lines 414-417: the remote party hangs up; the handler destroys the endpoint
RemoteHangup ==
  /\ handlerRegistered
  /\ ~hungUp
  /\ dialogDestroyCalls = 0
  /\ hungUp' = TRUE
  /\ endpointDestroyCalls' = Inc(endpointDestroyCalls)
  /\ NothingSwallowed
  /\ UNCHANGED <<pureVars, routeVars, ctlVars, engineVars, handlerRegistered,
                 rejectionsSent, finalVars>>

(***************************************************************************)
(* conversationLoop: greeting and audio fork.                              *)
(***************************************************************************)
\* generateSpeech resolves for a line spoken inside the try block: play it
GenerateSpeechResolves ==
  /\ \E line \in DOMAIN TtsPc \ {"err"} :
       /\ pc = TtsPc[line]
       /\ Goto(PlayPc[line])
       /\ linePlayed' = linePlayed \cup {line}
  /\ NothingSwallowed
  /\ UNCHANGED <<pureVars, routeVars, session, forkRunning, captureEnabled, musicPlaying,
                 holdMusic, callTranscript, thrownAt, dialogVars, finalVars>>

\* lines 150-156: the greeting has played; expectSession, forkAudioStart
GreetingPlayed ==
  /\ pc = "play_greeting"
  /\ Goto("forkAudioStart")
  /\ NothingSwallowed
  /\ UNCHANGED <<pureVars, routeVars, engineVars, dialogVars, finalVars>>

\* ForkStarted without line 161: forkRunning stays false
ForkStarted_FlagNotSet ==
  /\ pc = "forkAudioStart"
  /\ Goto("sessionPromise")
  /\ NothingSwallowed
  /\ UNCHANGED <<pureVars, routeVars, engineVars, dialogVars, finalVars>>

\* lines 156-163: the fork started; wait for the session
ForkStarted ==
  /\ pc = "forkAudioStart"
  /\ forkRunning' = TRUE
  /\ Goto("sessionPromise")
  /\ NothingSwallowed
  /\ UNCHANGED <<pureVars, routeVars, session, captureEnabled, musicPlaying, holdMusic,
                 callTranscript, thrownAt, linePlayed, dialogVars, finalVars>>

\* lines 163-170: the session materialized; enter the loop
SessionConnected ==
  /\ pc = "sessionPromise"
  /\ session' = TRUE
  /\ LoopHead
  /\ NothingSwallowed
  /\ UNCHANGED <<pureVars, routeVars, forkRunning, captureEnabled, musicPlaying, holdMusic,
                 callTranscript, thrownAt, linePlayed, dialogVars, finalVars>>

(***************************************************************************)
(* conversationLoop: one turn.                                             *)
(***************************************************************************)
\* ReadyBeepSettles without the try/catch of lines 175-179: a failed beep
\* enters the catch block of the engine
ReadyBeepSettles_Uncaught ==
  /\ pc = "play_ready"
  /\ \E failed \in BOOLEAN :
       IF failed
         THEN /\ cosmeticFailure' = "ready"
              /\ Catch
         ELSE /\ captureEnabled' = TRUE
              /\ Goto("waitForUtterance")
              /\ NothingSwallowed
              /\ UNCHANGED thrownAt
  /\ UNCHANGED <<pureVars, routeVars, session, forkRunning, musicPlaying, holdMusic,
                 callTranscript, linePlayed, dialogVars, finalVars>>

\* lines 175-186: the ready beep resolves or rejects (caught); capture on
ReadyBeepSettles ==
  /\ pc = "play_ready"
  /\ Swallowed("ready")
  /\ captureEnabled' = TRUE
  /\ Goto("waitForUtterance")
  /\ UNCHANGED <<pureVars, routeVars, session, forkRunning, musicPlaying, holdMusic,
                 callTranscript, thrownAt, linePlayed, dialogVars, finalVars>>

\* UtteranceCaptured without line 192: capture stays on
UtteranceCaptured_CaptureLeftOn ==
  /\ pc = "waitForUtterance"
  /\ Goto("play_gotit")
  /\ NothingSwallowed
  /\ UNCHANGED <<pureVars, routeVars, engineVars, dialogVars, finalVars>>

\* lines 186-202: an utterance arrived; capture off; got-it beep
UtteranceCaptured ==
  /\ pc = "waitForUtterance"
  /\ captureEnabled' = FALSE
  /\ Goto("play_gotit")
  /\ NothingSwallowed
  /\ UNCHANGED <<pureVars, routeVars, session, forkRunning, musicPlaying, holdMusic,
                 callTranscript, thrownAt, linePlayed, dialogVars, finalVars>>

\* CaptureTimeout without the try/catch of lines 185-190
CaptureTimeout_Uncaught ==
  /\ pc = "waitForUtterance"
  /\ Catch
  /\ NothingSwallowed
  /\ UNCHANGED <<pureVars, routeVars, session, forkRunning, musicPlaying, holdMusic,
                 callTranscript, linePlayed, dialogVars, finalVars>>

\* CaptureTimeout without line 192: capture stays on during the prompt
CaptureTimeout_CaptureLeftOn ==
  /\ pc = "waitForUtterance"
  /\ Say("nohear")
  /\ NothingSwallowed
  /\ UNCHANGED <<pureVars, routeVars, engineVars, dialogVars, finalVars>>

\* lines 188-195: waitForUtterance rejects (caught); capture off; prompt
CaptureTimeout ==
  /\ pc = "waitForUtterance"
  /\ captureEnabled' = FALSE
  /\ Say("nohear")
  /\ NothingSwallowed
  /\ UNCHANGED <<pureVars, routeVars, session, forkRunning, musicPlaying, holdMusic,
                 callTranscript, thrownAt, linePlayed, dialogVars, finalVars>>

\* lines 196-197 and 219-220: the prompt has played; continue
PromptPlayed ==
  /\ pc \in {"play_nohear", "play_clarify"}
  /\ LoopHead
  /\ NothingSwallowed
  /\ UNCHANGED <<pureVars, routeVars, engineVars, dialogVars, finalVars>>

\* lines 201-208: the got-it beep resolves or rejects (caught); transcribe
GotItBeepSettles ==
  /\ pc = "play_gotit"
  /\ Swallowed("gotit")
  /\ Goto("transcribe")
  /\ UNCHANGED <<pureVars, routeVars, engineVars, dialogVars, finalVars>>

\* lines 208-233: the transcription resolves; log it and decide
Transcribed ==
  /\ pc = "transcribe"
  /\ \E transcript \in Transcripts :
       IF IsUnclearTranscript(transcript)
         THEN /\ callTranscript' = callTranscript \cup {<<"user", transcript>>}
              /\ Say("clarify")
         ELSE IF isGoodbye(transcript)
           THEN /\ callTranscript' = callTranscript \cup
                     {<<"user", transcript>>, <<"assistant", FAREWELL>>}
                /\ Say("bye")
           ELSE /\ callTranscript' = callTranscript \cup {<<"user", transcript>>}
                /\ Say("thinking")
  /\ NothingSwallowed
  /\ UNCHANGED <<pureVars, routeVars, session, forkRunning, captureEnabled, musicPlaying,
                 holdMusic, thrownAt, linePlayed, dialogVars, finalVars>>

\* lines 226-227: the farewell has played; break
FarewellPlayed ==
  /\ pc = "play_bye"
  /\ AfterLoop
  /\ NothingSwallowed
  /\ UNCHANGED <<pureVars, routeVars, engineVars, dialogVars, finalVars>>

\* lines 234-248: the thinking phrase has played; hold music; query
ThinkingPlayed ==
  /\ pc = "play_thinking"
  /\ holdMusic' = TRUE
  /\ musicPlaying' = TRUE
  /\ IssueQuery
  /\ NothingSwallowed
  /\ UNCHANGED <<pureVars, routeVars, session, forkRunning, captureEnabled, callTranscript,
                 thrownAt, linePlayed, dialogVars, finalVars>>

\* lines 238-240: the hold-music playback ends or fails (logged)
HoldMusicSettles ==
  /\ holdMusic
  /\ Swallowed("holdMusic")
  /\ holdMusic' = FALSE
  /\ UNCHANGED <<pureVars, routeVars, ctlVars, session, forkRunning, captureEnabled,
                 musicPlaying, callTranscript, thrownAt, linePlayed, dialogVars,
                 finalVars>>

\* lines 260-264: extract the voice line, log it, synthesize it
SpeakVoiceLine ==
  /\ callTranscript' = callTranscript \cup {<<"assistant", VOICE_LINE>>}
  /\ Say("voice")

\* lines 245-253: the query resolves; interrupt the hold music
QueryResolves ==
  /\ pc = "query"
  /\ IF musicPlaying
       THEN Goto("uuid_break") /\ UNCHANGED callTranscript
       ELSE SpeakVoiceLine
  /\ NothingSwallowed
  /\ UNCHANGED <<pureVars, routeVars, session, forkRunning, captureEnabled, musicPlaying,
                 holdMusic, thrownAt, linePlayed, dialogVars, finalVars>>

\* lines 253-264: uuid_break resolves or rejects (caught)
BreakSettles ==
  /\ pc = "uuid_break"
  /\ Swallowed("uuid_break")
  /\ SpeakVoiceLine
  /\ UNCHANGED <<pureVars, routeVars, session, forkRunning, captureEnabled, musicPlaying,
                 holdMusic, thrownAt, linePlayed, dialogVars, finalVars>>

\* lines 265-268: the voice line has played; the turn is complete
VoiceLinePlayed ==
  /\ pc = "play_voice"
  /\ musicPlaying' = FALSE
  /\ LoopHead
  /\ NothingSwallowed
  /\ UNCHANGED <<pureVars, routeVars, session, forkRunning, captureEnabled, holdMusic,
                 callTranscript, thrownAt, linePlayed, dialogVars, finalVars>>

\* lines 272-273: the closing line has played
ClosingLinePlayed ==
  /\ pc = "play_max"
  /\ EnterFinally
  /\ NothingSwallowed
  /\ UNCHANGED <<pureVars, routeVars, engineVars, dialogVars, finalVars>>

(***************************************************************************)
(* conversationLoop: the error path.                                       *)
(***************************************************************************)
\* the awaits inside the try block whose rejection is not caught locally
UncaughtAwaits ==
  {"tts_greeting", "play_greeting", "forkAudioStart", "sessionPromise",
   "tts_nohear", "play_nohear", "transcribe", "tts_clarify", "play_clarify",
   "tts_bye", "play_bye", "tts_thinking", "play_thinking", "query",
   "tts_voice", "play_voice", "tts_max", "play_max"}

\* lines 275-279: one of them rejects; the catch block starts the apology
AwaitRejects ==
  /\ pc \in UncaughtAwaits
  /\ Catch
  /\ NothingSwallowed
  /\ UNCHANGED <<pureVars, routeVars, session, forkRunning, musicPlaying, holdMusic,
                 callTranscript, linePlayed, dialogVars, finalVars>>

\* lines 279-280: the apology is synthesized; play it
ApologySynthResolves ==
  /\ pc = "tts_err"
  /\ Goto("play_err")
  /\ linePlayed' = linePlayed \cup {"err"}
  /\ NothingSwallowed
  /\ UNCHANGED <<pureVars, routeVars, session, forkRunning, captureEnabled, musicPlaying,
                 holdMusic, callTranscript, thrownAt, dialogVars, finalVars>>

\* lines 279-281: the synthesis of the apology rejects (swallowed)
ApologySynthRejects ==
  /\ pc = "tts_err"
  /\ EnterFinally
  /\ NothingSwallowed
  /\ UNCHANGED <<pureVars, routeVars, engineVars, dialogVars, finalVars>>

\* lines 280-283: the playback of the apology resolves or rejects (swallowed)
ApologyPlaySettles ==
  /\ pc = "play_err"
  /\ EnterFinally
  /\ NothingSwallowed
  /\ UNCHANGED <<pureVars, routeVars, engineVars, dialogVars, finalVars>>

(***************************************************************************)
(* conversationLoop: the finally block.                                    *)
(***************************************************************************)
\* line 299: t.text.trim() throws for an entry whose text is null
TranscriptTextOf(entries) == \A e \in entries : e[2] # Null

\* lines 295-326: build and send the transcript (a throw is caught), then
\* dialog.destroy(); conversationLoop and handleInvite return.  failed holds
\* the cleanup steps that have failed before
FlushAndRelease(failed) ==
  /\ flushCount' = IF TranscriptTextOf(callTranscript)
                     THEN Inc(flushCount) ELSE flushCount
  /\ cleanupFailed' = IF TranscriptTextOf(callTranscript)
                        THEN failed ELSE failed \cup {"flush"}
  /\ dialogDestroyCalls' = Inc(dialogDestroyCalls)
  /\ Goto("done")

\* EndSessionSettles without the try/catch of lines 285-287: a rejection
\* leaves the finally block at once
EndSessionSettles_Uncaught ==
  /\ pc = "endSession"
  /\ \E rejected \in BOOLEAN :
       IF rejected
         THEN /\ cleanupFailed' = cleanupFailed \cup {"endSession"}
              /\ Goto("done")
              /\ UNCHANGED <<forkStopCalls, flushCount, dialogDestroyCalls>>
         ELSE IF forkRunning
           THEN /\ forkStopCalls' = Inc(forkStopCalls)
                /\ Goto("forkAudioStop")
                /\ UNCHANGED <<flushCount, dialogDestroyCalls, cleanupFailed>>
           ELSE /\ FlushAndRelease(cleanupFailed)
                /\ UNCHANGED forkStopCalls
  /\ NothingSwallowed
  /\ UNCHANGED <<pureVars, routeVars, engineVars, dialogVars>>

\* lines 285-291: endSession resolves or rejects (swallowed)
EndSessionSettles ==
  /\ pc = "endSession"
  /\ \E rejected \in BOOLEAN :
       LET failed == IF rejected THEN cleanupFailed \cup {"endSession"}
                                 ELSE cleanupFailed
       IN  IF forkRunning
             THEN /\ forkStopCalls' = Inc(forkStopCalls)
                  /\ cleanupFailed' = failed
                  /\ Goto("forkAudioStop")
                  /\ UNCHANGED <<flushCount, dialogDestroyCalls>>
             ELSE /\ FlushAndRelease(failed)
                  /\ UNCHANGED forkStopCalls
  /\ NothingSwallowed
  /\ UNCHANGED <<pureVars, routeVars, engineVars, dialogVars>>

\* lines 291-293: forkAudioStop resolves or rejects (swallowed)
ForkStopSettles ==
  /\ pc = "forkAudioStop"
  /\ \E rejected \in BOOLEAN :
       FlushAndRelease(IF rejected THEN cleanupFailed \cup {"forkAudioStop"}
                                   ELSE cleanupFailed)
  /\ NothingSwallowed
  /\ UNCHANGED <<pureVars, routeVars, engineVars, dialogVars, forkStopCalls>>

(***************************************************************************)
(* Specifications.                                                         *)
(***************************************************************************)
Receive == HandleInvite(EngineInvites)

Next ==
  \/ Receive
  \/ ConnectCallerRejects
  \/ ConnectCallerResolves
  \/ DtmfDelayElapses
  \/ DtmfApiSettles
  \/ DtmfPostDelayElapses
  \/ RemoteHangup
  \/ GenerateSpeechResolves
  \/ GreetingPlayed
  \/ ForkStarted
  \/ SessionConnected
  \/ ReadyBeepSettles
  \/ UtteranceCaptured
  \/ CaptureTimeout
  \/ PromptPlayed
  \/ GotItBeepSettles
  \/ Transcribed
  \/ FarewellPlayed
  \/ ThinkingPlayed
  \/ HoldMusicSettles
  \/ QueryResolves
  \/ BreakSettles
  \/ VoiceLinePlayed
  \/ ClosingLinePlayed
  \/ AwaitRejects
  \/ ApologySynthResolves
  \/ ApologySynthRejects
  \/ ApologyPlaySettles
  \/ EndSessionSettles
  \/ ForkStopSettles

Spec == Init /\ [][Next]_vars

\* the awaits of conversationLoop: each of them settles, one way or the other
AwaitSettles ==
  \/ GenerateSpeechResolves
  \/ GreetingPlayed
  \/ ForkStarted
  \/ SessionConnected
  \/ ReadyBeepSettles
  \/ UtteranceCaptured
  \/ CaptureTimeout
  \/ PromptPlayed
  \/ GotItBeepSettles
  \/ Transcribed
  \/ FarewellPlayed
  \/ ThinkingPlayed
  \/ QueryResolves
  \/ BreakSettles
  \/ VoiceLinePlayed
  \/ ClosingLinePlayed
  \/ AwaitRejects
  \/ ApologySynthResolves
  \/ ApologySynthRejects
  \/ ApologyPlaySettles
  \/ EndSessionSettles
  \/ ForkStopSettles

\* the engine under the assumption that no await of the loop stays pending
SpecLive == Init /\ [][Next]_vars /\ WF_vars(AwaitSettles)

\* device resolution alone, over every enumerated To header and registry
ReceiveAny == HandleInvite(AllInvites)

NextRoute == ReceiveAny

SpecRoute == Init /\ [][NextRoute]_vars

\* media negotiation explored on its own: every enumerated body
ReceiveSdp == HandleInvite(SdpInvites)

NextSdp == ReceiveSdp

SpecSdp == Init /\ [][NextSdp]_vars

(***************************************************************************)
(* isGoodbye explored on its own.                                          *)
(***************************************************************************)
\* line 223: isGoodbye(transcript), for any of the enumerated transcripts
CallIsGoodbye ==
  /\ heard = Null
  /\ \E transcript \in HeardTranscripts :
       /\ heard' = transcript
       /\ goodbye' = isGoodbye(transcript)
  /\ UNCHANGED <<routeVars, ctlVars, engineVars, dialogVars, finalVars,
                 cosmeticVars, claudeResponse, voiceLine>>

NextGoodbye == CallIsGoodbye

SpecGoodbye == Init /\ [][NextGoodbye]_vars

(***************************************************************************)
(* extractVoiceLine explored on its own.                                   *)
(***************************************************************************)
\* line 260: extractVoiceLine(claudeResponse), for any enumerated response
CallExtractVoiceLine ==
  /\ claudeResponse = Null
  /\ \E response \in Responses :
       /\ claudeResponse' = response
       /\ voiceLine' = extractVoiceLine(response)
  /\ UNCHANGED <<routeVars, ctlVars, engineVars, dialogVars, finalVars,
                 cosmeticVars, heard, goodbye>>

NextVoiceLine == CallExtractVoiceLine

SpecVoiceLine == Init /\ [][NextVoiceLine]_vars

(***************************************************************************)
(* Properties.                                                             *)
(***************************************************************************)
CleanupPcs == {"endSession", "forkAudioStop"}

EndedPcs == CleanupPcs \cup {"done"}

\* the awaits that start a capture wait, a transcription, a bridge query,
\* a speech synthesis or a playback
WorkPcs ==
  {"waitForUtterance", "transcribe", "query", "play_ready", "play_gotit"} \cup
  {TtsPc[l] : l \in DOMAIN TtsPc} \cup {PlayPc[l] : l \in DOMAIN PlayPc}

\* C1: a call runs at most 20 iterations of the turn loop.  The counter
\* never exceeds 20; an iteration is entered only with the counter below 20
\* and entering it adds one; an iteration that ended in a capture-timeout
\* prompt, in a clarification prompt or in a spoken answer is followed either
\* by such a counted iteration or, at 20, by the exit of the loop.
C1_TurnLimit ==
  /\ [](turnCount \in 0..MAX_TURNS)
  /\ [][(pc # "play_ready" /\ pc' = "play_ready")
          => (turnCount < MAX_TURNS /\ turnCount' = turnCount + 1)]_vars
  /\ [][(pc \in {"play_nohear", "play_clarify", "play_voice"} /\ pc' # pc)
          => \/ pc' = "play_ready" /\ turnCount' = turnCount + 1
             \/ pc' = "tts_max" /\ turnCount = MAX_TURNS /\ turnCount' = turnCount
             \/ pc' = "tts_err" /\ turnCount' = turnCount]_vars

\* the 20th iteration is a capture timeout, after iterations of the other kinds
C1_Witness ==
  /\ turnCount = MAX_TURNS
  /\ pc = "play_nohear"
  /\ {"clarify", "voice"} \subseteq linePlayed

\* C2 as stated: a call whose counter reached 20 ends with the closing line
\* synthesized and played, whatever happened inside the 20th iteration.
C2_ClosingLineAlways ==
  (pc = "done" /\ turnCount = MAX_TURNS)
    => ("max" \in lineSynth /\ "max" \in linePlayed)

\* C2 amended: when the loop is left with the counter at 20 and nothing has
\* thrown, the closing line is handed to speech synthesis and, once that
\* resolves, played, and cleanup follows; cleanup is reached without the
\* closing line only through the catch block.  The closing line is spoken
\* only at 20 turns, and before cleanup.
C2_MaxTurnsTermination ==
  /\ ("max" \in lineSynth) => turnCount = MAX_TURNS
  /\ (pc \in {"tts_max", "play_max"}) => (thrownAt = "none" /\ cleanupEntered = 0)
  /\ (pc = "play_max") => "max" \in linePlayed
  /\ (turnCount = MAX_TURNS /\ pc \in EndedPcs /\ thrownAt = "none")
       => ("max" \in lineSynth /\ "max" \in linePlayed /\ cleanupEntered = 1)
  /\ (turnCount = MAX_TURNS /\ pc \in EndedPcs /\ "max" \notin linePlayed)
       => thrownAt # "none"

\* the 20th iteration ended normally and the closing line was played
C2_Witness ==
  /\ pc = "done"
  /\ turnCount = MAX_TURNS
  /\ thrownAt = "none"
  /\ "max" \in linePlayed

\* C3 as stated: after a capture timeout the loop always returns to the top
\* of the loop and never goes to the error path.
C3_TimeoutNeverErrors ==
  [][(pc \in {"waitForUtterance", "tts_nohear", "play_nohear"})
       => pc' # "tts_err"]_vars

\* C3 amended: a rejection of waitForUtterance is never thrown: the counter
\* was already incremented for the iteration and stays, capture is disabled
\* and the synthesis of the "didn't hear" prompt is requested.  When the
\* prompt is synthesized and played the loop returns to its top (the next
\* counted iteration, or the max-turns exit at 20); only a rejection of the
\* prompt's own synthesis or playback goes to the error path.
C3_TimeoutHandled ==
  /\ [](pc \in {"waitForUtterance", "tts_nohear", "play_nohear"}
          => (turnCount >= 1 /\ cleanupEntered = 0 /\ thrownAt = "none"))
  /\ [](pc \in {"tts_nohear", "play_nohear"}
          => (~captureEnabled /\ "nohear" \in lineSynth))
  /\ [][(pc = "waitForUtterance" /\ pc' # pc)
          => /\ pc' \in {"play_gotit", "tts_nohear"}
             /\ turnCount' = turnCount
             /\ ~captureEnabled']_vars
  /\ [][(pc = "tts_nohear" /\ pc' # pc)
          => \/ pc' = "play_nohear"
             \/ pc' = "tts_err" /\ thrownAt' = "tts_nohear"]_vars
  /\ [][(pc = "play_nohear" /\ pc' # pc)
          => \/ pc' = "play_ready" /\ turnCount' = turnCount + 1
             \/ pc' = "tts_max" /\ turnCount = MAX_TURNS
             \/ pc' = "tts_err" /\ thrownAt' = "play_nohear"]_vars

\* a timeout happened, its prompt was played and the next iteration began
C3_Witness ==
  /\ pc = "play_ready"
  /\ turnCount >= 2
  /\ "nohear" \in linePlayed
  /\ thrownAt = "none"

\* C4 as stated: after every failed query the apology is played.
C4_ApologyAlwaysPlayed ==
  (thrownAt = "query" /\ pc \in EndedPcs) => "err" \in linePlayed

\* C4 amended: after a failed query the call never returns to the loop: the
\* synthesis of the apology is requested, the apology is played when that
\* synthesis resolves, and the call then ends through the cleanup block,
\* entered once; when the synthesis of the apology rejects too, cleanup
\* follows without the apology.
C4_QueryFailureEndsGracefully ==
  /\ [](thrownAt = "query"
          => /\ "err" \in lineSynth
             /\ pc \in {"tts_err", "play_err"} \cup EndedPcs
             /\ (pc = "play_err" => "err" \in linePlayed)
             /\ (pc \in EndedPcs <=> cleanupEntered = 1))
  /\ [][(pc = "query" /\ pc' # pc) => pc' \in {"uuid_break", "tts_err"}]_vars
  /\ [][(pc = "tts_err" /\ pc' # pc) => pc' \in {"play_err", "endSession"}]_vars
  /\ [][(pc = "play_err" /\ pc' # pc) => pc' = "endSession"]_vars

\* the query failed, the apology was played and the call was released
C4_Witness ==
  /\ thrownAt = "query"
  /\ pc = "done"
  /\ "err" \in linePlayed
  /\ dialogDestroyCalls = 1

\* C5: the cleanup block is entered exactly once per call, also when the
\* remote party hangs up and an error is thrown in the same call: endSession,
\* the fork stop, the transcript flush and dialog.destroy() each happen at
\* most once, and the block has been entered once exactly when the call is
\* in it or past it.
C5_CleanupOnce ==
  /\ cleanupEntered <= 1
  /\ endSessionCalls <= 1
  /\ forkStopCalls <= 1
  /\ flushCount <= 1
  /\ dialogDestroyCalls <= 1
  /\ (pc \in EndedPcs) <=> (cleanupEntered = 1)
  /\ (pc \in EndedPcs) <=> (endSessionCalls = 1)
  /\ (pc = "done") <=> (dialogDestroyCalls = 1)

\* a call that saw both a remote hangup and an internal error and returned
C5_Witness ==
  /\ pc = "done"
  /\ hungUp
  /\ thrownAt # "none"
  /\ cleanupEntered = 1

\* C6: every connected call that has returned had endpoint.destroy() called
\* exactly once.
C6_EndpointDestroyedOnce ==
  /\ endpointDestroyCalls <= 1
  /\ (pc = "done") => (endpointDestroyCalls = 1)

\* C7: once the dialog 'destroy' event has fired, the engine starts no
\* capture wait, transcription, bridge query, synthesis or playback.
C7_NoWorkAfterHangup ==
  [][(hungUp /\ pc' # pc) => pc' \notin WorkPcs]_vars

\* C8: a call that has returned has flushed its transcript exactly once.
C8_TranscriptFlushedOnce ==
  /\ flushCount <= 1
  /\ (pc = "done") => (flushCount = 1)

\* C9: a call whose To header yields a dialed extension that the registry
\* does not know is handed the DEFAULT profile, whatever devices exist.
C9_UnknownExtensionGetsDefault ==
  (/\ pc # "invite"
   /\ registry.present
   /\ dialedExt # Null
   /\ get(registry.devices, dialedExt) = Null)
    => deviceConfig = getDefault

\* an unknown extension dialed while other devices are configured
C9_Witness ==
  /\ pc = "connectCaller"
  /\ registry.present
  /\ Len(registry.devices) >= 1
  /\ dialedExt # Null
  /\ get(registry.devices, dialedExt) = Null
  /\ deviceConfig = getDefault

\* C10: the profile is the exact match on the dialed extension; else, only
\* for a call without a dialed extension, the first configured profile; else
\* the DEFAULT profile.
C10_ResolutionOrder ==
  (pc # "invite" /\ registry.present)
    => deviceConfig =
         IF dialedExt # Null /\ get(registry.devices, dialedExt) # Null
           THEN get(registry.devices, dialedExt)
           ELSE IF dialedExt = Null /\ registry.devices # <<>>
             THEN Profile(registry.devices[1])
             ELSE getDefault

(***************************************************************************)
(* Session descriptions as lines with their terminators.                   *)
(***************************************************************************)
\* the lines of s: the text of each and the CR LF or LF that ends it (the
\* last line may have none)
RECURSIVE SdpLinesOf(_)
SdpLinesOf(s) ==
  IF s = <<>> THEN <<>>
  ELSE LET i == indexOf(s, <<"\n">>)
       IN  IF i = 0
             THEN <<[text |-> s, end |-> <<>>]>>
             ELSE LET cr == i > 1 /\ s[i - 1] = "\r"
                  IN  <<[text |-> SubSeq(s, 1, IF cr THEN i - 2 ELSE i - 1),
                         end  |-> IF cr THEN CRLF ELSE <<"\n">>]>>
                      \o SdpLinesOf(SubSeq(s, i + 1, Len(s)))

\* line k belongs to a video section: the nearest m= line at or above it is
\* an m=video line
InVideoSection(lines, k) ==
  \E j \in 1..k :
    /\ startsWith(lines[j].text, MVideo)
    /\ \A h \in (j + 1)..k : ~startsWith(lines[h].text, MPrefix)

HasVideoSection(s) ==
  /\ s # Null
  /\ \E k \in 1..Len(SdpLinesOf(s)) : startsWith(SdpLinesOf(s)[k].text, MVideo)

RECURSIVE KeepOutsideVideo(_, _)
KeepOutsideVideo(lines, k) ==
  IF k > Len(lines) THEN <<>>
  ELSE (IF InVideoSection(lines, k) THEN <<>> ELSE lines[k].text \o lines[k].end)
       \o KeepOutsideVideo(lines, k + 1)

\* s without the lines of its video sections, every other line as it was
WithoutVideoSection(s) == KeepOutsideVideo(SdpLinesOf(s), 1)

\* C11: for every session description with a video section, the sanitized
\* description is the original without the m=video line and the lines up to
\* the next m= line; every other line is returned unchanged, in order and
\* with its original terminator, whether the lines end in CR LF or in LF.
C11_VideoSectionRemoved ==
  (pc # "invite" /\ HasVideoSection(originalSdp))
    => audioOnlySdp = WithoutVideoSection(originalSdp)

\* C12: sanitizing is idempotent, and a session description without a video
\* section is returned as it was given.
C12_StripIdempotent ==
  pc # "invite"
    => /\ stripVideoFromSdp(audioOnlySdp) = audioOnlySdp
       /\ ~HasVideoSection(originalSdp) => audioOnlySdp = originalSdp

\* a description whose video section was removed
C12_Witness ==
  /\ pc = "connectCaller"
  /\ HasVideoSection(originalSdp)
  /\ audioOnlySdp # originalSdp
  /\ ~HasVideoSection(audioOnlySdp)
  /\ stripVideoFromSdp(audioOnlySdp) = audioOnlySdp

(***************************************************************************)
(* Goodbye phrases as tokens.                                              *)
(***************************************************************************)
\* phrase occurs in s at position i with a space or the end of s on each side
IsSeparatedAt(s, phrase, i) ==
  /\ i + Len(phrase) - 1 <= Len(s)
  /\ SubSeq(s, i, i + Len(phrase) - 1) = phrase
  /\ i = 1 \/ s[i - 1] = " "
  /\ i + Len(phrase) - 1 = Len(s) \/ s[i + Len(phrase)] = " "

\* the lowercased, trimmed transcript holds a goodbye phrase as a token
HasGoodbyeToken(transcript) ==
  LET lower == trim(toLowerCase(transcript))
  IN  \E k \in 1..Len(goodbyePhrases), i \in 1..Len(lower) :
        IsSeparatedAt(lower, goodbyePhrases[k], i)

\* C13: isGoodbye answers true exactly when the lowercased, trimmed
\* transcript is a goodbye phrase or holds one as a token with a space or
\* the end of the string on both sides; a phrase that is only part of a
\* longer word is not detected.
C13_GoodbyeIsToken ==
  heard # Null => (goodbye <=> HasGoodbyeToken(heard))

(***************************************************************************)
(* The extraction priority chain, line by line.                            *)
(***************************************************************************)
\* the text that follows marker on the first line that carries it, or Null;
\* blankCounts tells whether a marker with no text after it marks a line
MarkedLine(r, marker, blankCounts) ==
  LET lines == split(r, <<NL>>)
      hits == {k \in 1..Len(lines) : includes(lines[k], marker)}
  IN  IF hits = {} THEN Null
      ELSE LET k == CHOOSE h \in hits : \A g \in hits : h <= g
               i == indexOf(lines[k], marker)
               text == SubSeq(lines[k], i + Len(marker), Len(lines[k]))
           IN  IF text = <<>> /\ ~blankCounts THEN Null ELSE text

\* rules 1 and 2: the cleaned marked line, if it has words and no more than limit
RuleApplies(r, marker, limit) ==
  /\ MarkedLine(r, marker, TRUE) # Null
  /\ CleanLine(MarkedLine(r, marker, TRUE)) # <<>>
  /\ Len(CleanLine(MarkedLine(r, marker, TRUE))) <= limit

\* the result of the first rule that applies (rule 5 gives rule 4's result
\* for the only text rule 4 has no token of, the blank one)
PriorityChain(r, blankCounts) ==
  IF RuleApplies(r, VoiceMarker, VOICE_WORD_LIMIT)
    THEN CleanLine(MarkedLine(r, VoiceMarker, TRUE))
  ELSE IF RuleApplies(r, CustomMarker, CUSTOM_WORD_LIMIT)
    THEN CleanLine(MarkedLine(r, CustomMarker, TRUE))
  ELSE IF MarkedLine(r, CompletedMarker, blankCounts) # Null
    THEN CleanLine(MarkedLine(r, CompletedMarker, blankCounts))
  ELSE LET raw == SelectSeq(r, LAMBDA w : w # NL)
           tokens == NonEmptyWords([i \in 1..Len(raw) |-> RemoveMarkup(raw[i])])
       IN  SubSeq(tokens, 1, IF Len(tokens) < FALLBACK_WORDS
                               THEN Len(tokens) ELSE FALLBACK_WORDS)

\* C14: extractVoiceLine returns the result of the first rule that applies:
\* (1) the marked VOICE_RESPONSE line, cleaned, only if it has at most 60
\* words; (2) the marked CUSTOM COMPLETED line, cleaned, only if it has at
\* most 50 words; (3) the marked COMPLETED line, unconditionally; (4) the
\* first 120 tokens of the raw text without markup; (5) its first 500
\* characters.  A cleaned line without any word is taken not to apply in
\* rules 1 and 2, and a COMPLETED marker with no text after it may or may
\* not count as a marked line.
C14_PriorityChain ==
  claudeResponse # Null
    => \E blankCounts \in BOOLEAN :
         voiceLine = PriorityChain(claudeResponse, blankCounts)

\* C15: when connectCaller rejects, handleInvite sends the 500 response
\* and rethrows; the call stays rejected for good: no line is synthesized,
\* no fork is started or stopped, no session is awaited, no query and no
\* endSession reach the bridge, the cleanup block is not entered and no
\* transcript is flushed.  A 500 is sent only for such a call.
C15_RejectedCallNeverStarts ==
  /\ [](pc = "rejected" =>
          /\ rejectionsSent = 1
          /\ ~handlerRegistered
          /\ lineSynth = {} /\ linePlayed = {}
          /\ ~forkRunning /\ ~session /\ forkStopCalls = 0
          /\ bridgeSessions = {} /\ sessionsCreated = 0
          /\ endSessionCalls = 0 /\ cleanupEntered = 0
          /\ flushCount = 0 /\ callTranscript = {})
  /\ [](rejectionsSent > 0 => pc = "rejected")
  /\ [][pc = "rejected" => pc' = "rejected"]_vars

\* a call the media layer refused
C15_Witness ==
  /\ pc = "rejected"
  /\ rejectionsSent = 1
  /\ audioOnlySdp # originalSdp

\* C16: every query carries the call's UUID as callId, so the bridge never
\* holds a session under another id and starts at most one for the call;
\* while a query is pending the session exists and endSession has not been
\* called; endSession is called once, when the cleanup block is entered, and
\* no query follows it.
C16_OneBridgeSession ==
  /\ [](bridgeSessions \subseteq {callUuid})
  /\ [](sessionsCreated <= 1)
  /\ [](pc = "query" => bridgeSessions = {callUuid} /\ endSessionCalls = 0)
  /\ [](endSessionCalls >= 1 => pc \in EndedPcs /\ bridgeSessions = {})
  /\ [](pc = "done" => endSessionCalls = 1)
  /\ [][endSessionCalls' # endSessionCalls
          => pc' = "endSession" /\ cleanupEntered' = cleanupEntered + 1]_vars

\* a second query of a call, resuming the session of the first
C16_Witness ==
  /\ pc = "query"
  /\ <<"assistant", VOICE_LINE>> \in callTranscript
  /\ sessionsCreated = 1
  /\ bridgeSessions = {callUuid}

\* C17: once the caller has said goodbye and nothing has thrown, the call
\* only speaks the farewell and then cleans up: it is synthesizing or playing
\* the farewell, or it is in or past the cleanup block; no query is pending
\* and no other line, the max-turns closing line included, is spoken after
\* it, whichever iteration the goodbye came in.
C17_FarewellIsLastLine ==
  (<<"assistant", FAREWELL>> \in callTranscript /\ thrownAt = "none")
    => /\ pc \in {TtsPc.bye, PlayPc.bye} \cup EndedPcs
       /\ "max" \notin lineSynth

\* C18: in a turn with hold music started, when the query settles, resolved
\* or rejected, the next step of the call is the uuid_break command, before
\* the voice line or the apology is synthesized and played.
C18_BreakAfterEveryQuery ==
  [][(pc = "query" /\ musicPlaying /\ pc' # pc) => pc' = "uuid_break"]_vars

\* C19: while the got-it cue plays and while the transcription is pending
\* the capture flag is false; it is cleared in the step that receives the
\* utterance, and a transcription starts only after the got-it cue.
C19_CaptureOffBeforeTranscription ==
  /\ [](pc \in {"play_gotit", "transcribe"} => ~captureEnabled)
  /\ [][(pc = "waitForUtterance" /\ pc' = "play_gotit")
          => captureEnabled /\ ~captureEnabled']_vars
  /\ [][(pc' = "transcribe" /\ pc # "transcribe") => pc = "play_gotit"]_vars

\* a transcription pending with capture off
C19_Witness ==
  /\ pc = "transcribe"
  /\ session
  /\ ~captureEnabled
  /\ thrownAt = "none"

\* C20: however the transcription settles, the call goes on: the next step
\* is the clarification prompt, the farewell or the thinking phrase; a
\* failed transcription is answered with the clarification prompt and never
\* with the apology and the end of the call.
C20_TranscriptionFailureClarifies ==
  [][(pc = "transcribe" /\ pc' # pc)
       => pc' \in {TtsPc.clarify, TtsPc.bye, TtsPc.thinking}]_vars

\* C21: the cleanup steps do not depend on each other's outcome: whatever
\* failed among endSession, the fork stop and the transcript flush, a
\* running fork is stopped after endSession settles, the flush is attempted
\* (it hands over the payload or it is the step that failed), and a call
\* that has returned had dialog.destroy() called; the cleanup block is left
\* only through its last statement.
C21_CleanupStepsIndependent ==
  /\ [](pc = "done" =>
          /\ endSessionCalls = 1
          /\ forkRunning => forkStopCalls = 1
          /\ flushCount = 1 \/ "flush" \in cleanupFailed
          /\ dialogDestroyCalls = 1)
  /\ [][(pc = "endSession" /\ pc' # pc)
          => IF forkRunning
               THEN pc' = "forkAudioStop" /\ forkStopCalls' = forkStopCalls + 1
               ELSE pc' = "done" /\ dialogDestroyCalls' = dialogDestroyCalls + 1]_vars
  /\ [][(pc = "forkAudioStop" /\ pc' # pc)
          => pc' = "done" /\ dialogDestroyCalls' = dialogDestroyCalls + 1]_vars

\* a call that returned although every cleanup step before the release failed
C21_Witness ==
  /\ pc = "done"
  /\ cleanupFailed = {"endSession", "forkAudioStop", "flush"}
  /\ forkStopCalls = 1
  /\ dialogDestroyCalls = 1

\* C22: forkAudioStop is issued during cleanup exactly when forkAudioStart
\* had resolved for the call: never for a call that failed before or in
\* forkAudioStart, and always, once, for a call whose fork started, also
\* when the session then failed to materialize.
C22_ForkStoppedIffStarted ==
  /\ [](forkStopCalls <= 1)
  /\ [](forkStopCalls = 1 => forkRunning /\ pc \in {"forkAudioStop", "done"})
  /\ [](pc = "done" => (forkStopCalls = 1 <=> forkRunning))
  /\ []((pc = "done" /\ thrownAt \in {"tts_greeting", "play_greeting", "forkAudioStart"})
          => forkStopCalls = 0)
  /\ []((pc = "done" /\ thrownAt \notin {"none", "tts_greeting", "play_greeting",
                                         "forkAudioStart"})
          => forkStopCalls = 1)
  /\ [][forkRunning' # forkRunning
          => pc = "forkAudioStart" /\ pc' = "sessionPromise" /\ forkRunning']_vars

\* the fork started, the session did not materialize, the fork was stopped
C22_Witness ==
  /\ pc = "done"
  /\ thrownAt = "sessionPromise"
  /\ ~session
  /\ forkRunning
  /\ forkStopCalls = 1

(***************************************************************************)
(* C23: a failure of the ready cue, the got-it cue, the hold music, the    *)
(* playback interrupt or the call-start notification is swallowed: the     *)
(* step that swallows it leaves the error state and the turn count alone   *)
(* and does not enter the cleanup, and the engine moves to the state it    *)
(* moves to on success (ready cue: capture on, then listen; got-it cue:    *)
(* transcription; interrupt: synthesis of the voice line; notification:    *)
(* synthesis of the greeting; hold music: no move at all).                 *)
(***************************************************************************)
CosmeticSuccessor ==
  [play_ready |-> "waitForUtterance", play_gotit |-> "transcribe",
   uuid_break |-> "tts_voice"]

C23_CosmeticFailuresSwallowed ==
  /\ [][\A p \in DOMAIN CosmeticSuccessor :
          (pc = p /\ pc' # pc)
            => /\ pc' = CosmeticSuccessor[p]
               /\ thrownAt' = thrownAt
               /\ turnCount' = turnCount
               /\ cleanupEntered' = cleanupEntered]_vars
  /\ [][(pc = "play_ready" /\ pc' # pc) => captureEnabled']_vars
  /\ [][(cosmeticFailure' # "none")
          => /\ thrownAt' = thrownAt
             /\ turnCount' = turnCount
             /\ cleanupEntered' = cleanupEntered
             /\ cosmeticFailure' = "startWebhook" => pc' = "tts_greeting"
             /\ cosmeticFailure' = "holdMusic" => pc' = pc]_vars
  /\ [](thrownAt \notin DOMAIN CosmeticSuccessor)

C23_Witness ==
  /\ pc = "tts_voice"
  /\ cosmeticFailure = "uuid_break"
  /\ thrownAt = "none"
  /\ cleanupEntered = 0

(***************************************************************************)
(* C24: capture is enabled only while an utterance is awaited.  The flag   *)
(* is true in no state other than the pending waitForUtterance, so it is   *)
(* false whenever a synthesis, a playback, a transcription, a bridge       *)
(* query or the playback interrupt is pending and whenever the cleanup     *)
(* has begun; it becomes true only in the step from the ready cue into     *)
(* the wait, and every step that leaves the wait, with an utterance or     *)
(* with a failure, turns it off.                                           *)
(***************************************************************************)
C24_CaptureOnlyWhileListening ==
  /\ [](captureEnabled => (pc = "waitForUtterance" /\ session))
  /\ [](cleanupEntered > 0 => ~captureEnabled)
  /\ [][(captureEnabled' /\ ~captureEnabled)
          => (pc = "play_ready" /\ pc' = "waitForUtterance")]_vars
  /\ [][(pc' = "waitForUtterance" /\ pc # "waitForUtterance")
          => (pc = "play_ready" /\ captureEnabled')]_vars
  /\ [][(pc = "waitForUtterance" /\ pc' # pc)
          => (captureEnabled /\ ~captureEnabled')]_vars

\* a second turn is listening, the first one having ended on a timeout
C24_Witness ==
  /\ pc = "waitForUtterance"
  /\ captureEnabled
  /\ turnCount = 2
  /\ "nohear" \in lineSynth

(***************************************************************************)
(* C25: when every await of the loop settles, a conversation that has      *)
(* started reaches its cleanup block and returns: the cleanup was entered  *)
(* once, the dialog was released, and the loop never began more than       *)
(* MAX_TURNS iterations.                                                   *)
(***************************************************************************)
LoopReturned ==
  /\ pc = "done"
  /\ cleanupEntered = 1
  /\ dialogDestroyCalls = 1

C25_LoopTerminates ==
  /\ (pc = "tts_greeting") ~> LoopReturned
  /\ [](turnCount <= MAX_TURNS)
  /\ [][turnCount' # turnCount
          => (turnCount' = turnCount + 1 /\ pc' = "play_ready")]_vars

\* the loop returned after its last permitted iteration
C25_Witness ==
  /\ LoopReturned
  /\ turnCount = MAX_TURNS
  /\ "max" \in linePlayed

====
